---- MODULE Spec2Model ----
(***************************************************************************)
(* Dual camera viewer (src/main.py): two VideoThread workers, each pulling *)
(* frames from one camera source, and the CameraApp foreground context     *)
(* that loads the configuration, starts the workers, saves still frames on *)
(* the capture button and stops the workers when the window closes.        *)
(***************************************************************************)
EXTENDS Naturals, Sequences, FiniteSets, TLC

(* ------------------------------ bounds -------------------------------- *)

\* frames a camera source yields before it stops yielding
MaxFrames == 2
\* frames a camera source yields in a run that repeats the capture
MaxRepeatFrames == 1
\* presses of the capture button in one run of the program
MaxCaptures == 1
\* presses of the capture button in a run that repeats the capture
MaxRepeats == 2
\* seconds in a day of the wall clock
SecondsPerDay == 2

(* ------------------------------ values -------------------------------- *)

\* the two camera sides
SideSet == {"left", "right"}

\* Python's None, in the shape of a frame
None == [src |-> "none", n |-> 0, fmt |-> "none"]

\* the n-th frame decoded from the source of side s (OpenCV decodes to BGR)
Frame(s, n) == [src |-> s, n |-> n, fmt |-> "BGR"]

\* frame.copy(): a new array with the same content
Copy(f) == f

\* cv2.cvtColor(frame, cv2.COLOR_BGR2RGB)
cvtColor(f) == [f EXCEPT !.fmt = "RGB"]

\* QImage(rgb_image.data, w, h, bytes_per_line, Format_RGB888)
QImage(f) == f

(* ------------------------- configuration files ------------------------ *)
\* A JSON value: t is its type; s its text when a string, n its value when a
\* number, items its elements when an array of strings, m its members when an
\* object.
JNull == [t |-> "null", s |-> "", n |-> 0, items |-> <<>>, m |-> <<>>]
JNum(x) == [t |-> "number", s |-> "", n |-> x, items |-> <<>>, m |-> <<>>]
JStr(x) == [t |-> "string", s |-> x, n |-> 0, items |-> <<>>, m |-> <<>>]
JArr(xs) == [t |-> "array", s |-> "", n |-> 0, items |-> xs, m |-> <<>>]
JObj(f) == [t |-> "object", s |-> "", n |-> 0, items |-> <<>>, m |-> f]

\* the default arguments of the two .get calls
EmptyList == JArr(<<>>)
EmptyDict == JObj(<<>>)

\* config/materials.json as it may be found on disk
MaterialsFiles ==
  {"missing", "garbage", "null", "array", "obj_nokey", "obj_one", "obj_two", "obj_num"}

\* config/cameras.json as it may be found on disk
CamerasFiles ==
  {"missing", "garbage", "null", "array", "obj_empty", "obj_left", "obj_right", "obj_both",
   "obj_index"}

\* open(filepath, "r"): raises FileNotFoundError when the file is missing
open(file) == [raised |-> file = "missing"]

\* json.load(file): raises JSONDecodeError on text that is not JSON, and
\* returns the parsed value otherwise
json_load(file) ==
  CASE file = "garbage" -> [raised |-> TRUE, val |-> JNull]
    [] file = "null" -> [raised |-> FALSE, val |-> JNull]
    [] file = "array" -> [raised |-> FALSE, val |-> JArr(<<"steel">>)]
    [] file = "obj_nokey" -> [raised |-> FALSE, val |-> JObj(<<>>)]
    [] file = "obj_empty" -> [raised |-> FALSE, val |-> JObj(<<>>)]
    [] file = "obj_one" ->
         [raised |-> FALSE, val |-> JObj([k \in {"materials"} |-> JArr(<<"steel">>)])]
    [] file = "obj_two" ->
         [raised |-> FALSE,
          val |-> JObj([k \in {"materials"} |-> JArr(<<"steel", "wood">>)])]
    [] file = "obj_num" ->
         [raised |-> FALSE, val |-> JObj([k \in {"materials"} |-> JNum(5)])]
    [] file = "obj_left" ->
         [raised |-> FALSE, val |-> JObj([k \in {"left"} |-> JStr("rtsp_left")])]
    [] file = "obj_right" ->
         [raised |-> FALSE, val |-> JObj([k \in {"right"} |-> JStr("rtsp_right")])]
    [] file = "obj_both" ->
         [raised |-> FALSE,
          val |-> JObj([k \in {"left", "right"} |-> JStr("rtsp_" \o k)])]
    [] file = "obj_index" ->
         [raised |-> FALSE,
          val |-> JObj([k \in {"left", "right"} |-> JNum(IF k = "left" THEN 0 ELSE 1)])]
    [] OTHER -> [raised |-> TRUE, val |-> JNull]

\* data.get(key, default): only a dict has .get; on any other value the
\* attribute lookup raises AttributeError
DictGet(data, key, default) ==
  IF data.t = "object"
  THEN [raised |-> FALSE, val |-> IF key \in DOMAIN data.m THEN data.m[key] ELSE default]
  ELSE [raised |-> TRUE, val |-> default]

\* what a loader hands back: the value returned, the lines it printed, and
\* whether an exception left the loader
LoadResult(val, printed, raised) == [val |-> val, printed |-> printed, raised |-> raised]

load_material_types(file) ==
  LET o == open(file)
      j == json_load(file)
      g == DictGet(j.val, "materials", EmptyList)
  IN IF o.raised \/ j.raised \/ g.raised
     THEN LoadResult(JArr(<<"unknown">>), <<"Error loading material types">>, FALSE)
     ELSE LoadResult(g.val, <<>>, FALSE)

load_camera_config(file) ==
  LET o == open(file)
      j == json_load(file)
  IN IF o.raised \/ j.raised
     THEN LoadResult(EmptyDict, <<"Error loading camera config">>, FALSE)
     ELSE LoadResult(j.val, <<>>, FALSE)

(* ------------------------------- state -------------------------------- *)

VARIABLES
  files,           \* the two configuration files on disk: [materials, cameras]
  material_types,  \* CameraApp.material_types
  cameras_config,  \* CameraApp.cameras_config
  printed,         \* the lines printed to standard output
  url,             \* VideoThread.url of each side, as the configuration gave it
  wpc,             \* where each worker thread is in VideoThread.run
  running,         \* VideoThread.running of each side
  cap,             \* each worker's cv2.VideoCapture: none, opened, failed, released
  instRaw,         \* the instance attribute raw_frame of each worker, None while unset
  nread,           \* how many frames each worker has read successfully
  published,       \* the last image each worker emitted on frame_received
  ret,             \* run: ret, of the latest cap.read() of each worker
  fg,              \* where the foreground (GUI) context is
  waitFor,         \* the worker whose stop() the foreground is inside
  ctx,             \* who called that stop(): closeEvent or a direct call
  stopped,         \* whether a stop() of each worker has returned
  supply,          \* the frames each camera source yields before it stops yielding
  wall,            \* the seconds the wall clock can read while the program runs
  clock,           \* capture_images: what its datetime.now() calls returned, in order
  timestamp,       \* capture_images: timestamp
  folder_name,     \* capture_images: folder_name
  material,        \* capture_images: material
  saved_files,     \* capture_images: saved_files
  held,            \* capture_images: what each `raw_frame is not None` test found
  dialog,          \* the QMessageBox on screen: none, success, warning
  dialog_text,     \* the paths the success dialog lists
  ncap,            \* capture actions begun so far; the running action's number
  presses,         \* presses of the capture button the user has still to make
  dirs,            \* the directories under results/
  fs               \* the image files: path -> [img, by]

cfgVars == <<files, material_types, cameras_config, printed, url>>
workerVars == <<wpc, running, cap, instRaw, nread, published, ret>>
stopVars == <<waitFor, ctx, stopped>>
capVars == <<timestamp, folder_name, material, saved_files, held, dialog, dialog_text, ncap>>
fsVars == <<dirs, fs>>
vars == <<cfgVars, workerVars, stopVars, capVars, fsVars, fg, clock, presses, wall, supply>>

NoStamp == <<>>
NoFiles == <<>>

\* class attribute VideoThread.raw_frame, never assigned
ClassRawFrame == None

\* self.<side>_thread.raw_frame: the instance attribute once run has assigned
\* it, the class attribute before
raw_frame(s) == IF instRaw[s] # None THEN instRaw[s] ELSE ClassRawFrame

(* ------------------------------- start -------------------------------- *)

InitFiles(ms, cs, n, w, k) ==
  /\ files \in [materials : ms, cameras : cs]
  /\ material_types = EmptyList
  /\ cameras_config = EmptyDict
  /\ printed = <<>>
  /\ url = [s \in SideSet |-> JStr("")]
  /\ wpc = [s \in SideSet |-> "unstarted"]
  /\ running = [s \in SideSet |-> FALSE]
  /\ cap = [s \in SideSet |-> "none"]
  /\ instRaw = [s \in SideSet |-> None]
  /\ nread = [s \in SideSet |-> 0]
  /\ published = [s \in SideSet |-> None]
  /\ ret = [s \in SideSet |-> FALSE]
  /\ fg = "boot"
  /\ waitFor = "none"
  /\ ctx = "none"
  /\ stopped = [s \in SideSet |-> FALSE]
  /\ wall = w
  /\ supply = k
  /\ clock = <<>>
  /\ timestamp = NoStamp
  /\ folder_name = NoStamp
  /\ material = ""
  /\ saved_files = NoFiles
  /\ held = [s \in SideSet |-> FALSE]
  /\ dialog = "none"
  /\ dialog_text = NoFiles
  /\ ncap = 0
  /\ presses = n
  /\ dirs = {}
  /\ fs = <<>>

\* the configurations the full program is run under, within one second of
\* the wall clock
Init == InitFiles({"obj_two"}, {"obj_both", "missing", "array"}, MaxCaptures, {0}, MaxFrames)

\* the program with one camera configured and the capture button pressed
\* again and again while the wall clock runs, forward or set back, over two
\* seconds of one day and the first second of the next
InitRepeat == InitFiles({"obj_two"}, {"obj_left"}, MaxRepeats, {0, 1, SecondsPerDay},
                        MaxRepeatFrames)

\* every configuration file, for the loaders alone
InitConfig == InitFiles(MaterialsFiles, CamerasFiles, 0, {0}, 0)

\* QComboBox.addItems(material_types) takes a list of strings
addItems_raises(mt) == mt.t # "array"

\* dropdown.currentText(): the entry the user has picked among the items
\* addItems put there, "" when there is none
currentText(mt) == IF Len(mt.items) > 0 THEN {mt.items[i] : i \in 1..Len(mt.items)} ELSE {""}

\* the source a side is given: cameras_config.get(side, ""), the value under
\* the key as it is (a text or a number), "" when the key is absent
SourceOf(cfg, s) == DictGet(cfg, s, JStr("")).val

\* CameraApp.__init__ up to self.left_thread.start(): load both files, fill
\* the dropdown, create the two workers and start the left one. An exception
\* leaving __init__ ends the program.
CameraApp_init ==
  /\ fg = "boot"
  /\ LET m == load_material_types(files.materials)
         c == load_camera_config(files.cameras)
         crash == \/ m.raised \/ c.raised
                  \/ addItems_raises(m.val)
                  \/ DictGet(c.val, "left", JStr("")).raised
     IN /\ material_types' = m.val
        /\ cameras_config' = c.val
        /\ printed' = printed \o m.printed \o c.printed
        /\ IF crash
           THEN /\ fg' = "crashed"
                /\ UNCHANGED <<url, wpc, running>>
           ELSE /\ fg' = "starting"
                /\ url' = [s \in SideSet |-> SourceOf(c.val, s)]
                /\ running' = [s \in SideSet |-> TRUE]
                /\ wpc' = [wpc EXCEPT !["left"] = "open"]
  /\ UNCHANGED <<files, cap, instRaw, nread, published, ret, stopVars, capVars, fsVars,
                 clock, presses, wall, supply>>

\* self.right_thread.start(), and __init__ returns
CameraApp_init_right ==
  /\ fg = "starting"
  /\ wpc' = [wpc EXCEPT !["right"] = "open"]
  /\ fg' = "idle"
  /\ UNCHANGED <<cfgVars, running, cap, instRaw, nread, published, ret, stopVars, capVars,
                 fsVars,
                 clock, presses, wall, supply>>

(* --------------------------- VideoThread.run -------------------------- *)

\* cap = cv2.VideoCapture(self.url): a text is the address of a stream, and
\* there is none under the empty text; a number is the index of a device
VideoCapture(u) ==
  CASE u.t = "string" -> IF u.s # "" THEN "opened" ELSE "failed"
    [] u.t = "number" -> "opened"

run_open(s) ==
  /\ wpc[s] = "open"
  /\ cap' = [cap EXCEPT ![s] = VideoCapture(url[s])]
  /\ wpc' = [wpc EXCEPT ![s] = "test"]
  /\ UNCHANGED <<running, instRaw, nread, published, ret>>

\* a loop that never looks at the flag: while True
run_test_forever(s) ==
  /\ wpc[s] = "test"
  /\ wpc' = [wpc EXCEPT ![s] = "read"]
  /\ UNCHANGED <<running, cap, instRaw, nread, published, ret>>

\* while self.running:
run_test(s) ==
  /\ wpc[s] = "test"
  /\ wpc' = [wpc EXCEPT ![s] = IF running[s] THEN "read" ELSE "release"]
  /\ UNCHANGED <<running, cap, instRaw, nread, published, ret>>

\* VideoThread.raw_frame = frame.copy(), an assignment to the class
store_raw_class(s, frame) == [x \in SideSet |-> Copy(frame)]

\* self.raw_frame = frame.copy(), an assignment to the instance
store_raw(s, frame) == [instRaw EXCEPT ![s] = Copy(frame)]

\* run: frame, the value the latest cap.read() of the worker returned
frame(s) == IF ret[s] THEN Frame(s, nread[s]) ELSE None

\* ret, frame = cap.read() with ret true; if ret:
run_read_ok(s) ==
  /\ wpc[s] = "read"
  /\ cap[s] = "opened"
  /\ nread[s] < supply
  /\ nread' = [nread EXCEPT ![s] = nread[s] + 1]
  /\ ret' = [ret EXCEPT ![s] = TRUE]
  /\ wpc' = [wpc EXCEPT ![s] = "store"]
  /\ UNCHANGED <<running, cap, instRaw, published>>

\* self.raw_frame = frame.copy()
run_store(s) ==
  /\ wpc[s] = "store"
  /\ instRaw' = store_raw(s, frame(s))
  /\ wpc' = [wpc EXCEPT ![s] = "emit"]
  /\ UNCHANGED <<running, cap, nread, published, ret>>

\* rgb_image = cv2.cvtColor(...); qt_image = QImage(...);
\* self.frame_received.emit(qt_image)
run_emit(s) ==
  /\ wpc[s] = "emit"
  /\ published' = [published EXCEPT ![s] = QImage(cvtColor(frame(s)))]
  /\ wpc' = [wpc EXCEPT ![s] = "test"]
  /\ UNCHANGED <<running, cap, instRaw, nread, ret>>

\* a failed read that ends the loop: if not ret: break
run_read_fail_break(s) ==
  /\ wpc[s] = "read"
  /\ wpc' = [wpc EXCEPT ![s] = "release"]
  /\ ret' = [ret EXCEPT ![s] = FALSE]
  /\ UNCHANGED <<running, cap, instRaw, nread, published>>

\* a failed read that stores what it got: self.raw_frame = frame, with frame None
run_read_fail_clear(s) ==
  /\ wpc[s] = "read"
  /\ instRaw' = [instRaw EXCEPT ![s] = None]
  /\ wpc' = [wpc EXCEPT ![s] = "test"]
  /\ ret' = [ret EXCEPT ![s] = FALSE]
  /\ UNCHANGED <<running, cap, nread, published>>

\* ret, frame = cap.read() with ret false: nothing but the next iteration
run_read_fail(s) ==
  /\ wpc[s] = "read"
  /\ wpc' = [wpc EXCEPT ![s] = "test"]
  /\ ret' = [ret EXCEPT ![s] = FALSE]
  /\ UNCHANGED <<running, cap, instRaw, nread, published>>

\* run returns without cap.release()
run_release_leak(s) ==
  /\ wpc[s] = "release"
  /\ wpc' = [wpc EXCEPT ![s] = "finished"]
  /\ UNCHANGED <<running, cap, instRaw, nread, published, ret>>

\* cap.release(), and run returns
run_release(s) ==
  /\ wpc[s] = "release"
  /\ cap' = [cap EXCEPT ![s] = "released"]
  /\ wpc' = [wpc EXCEPT ![s] = "finished"]
  /\ UNCHANGED <<running, instRaw, nread, published, ret>>

Worker(s) ==
  /\ \/ run_open(s)
     \/ run_test(s)
     \/ run_read_ok(s)
     \/ run_store(s)
     \/ run_emit(s)
     \/ run_read_fail(s)
     \/ run_release(s)
  /\ UNCHANGED <<cfgVars, stopVars, capVars, fsVars, fg, clock, presses, wall, supply>>

(* ------------------------ VideoThread.stop ---------------------------- *)

\* self.running = False
stop_set(s) == [running EXCEPT ![s] = FALSE]

\* a wait that gives up: self.wait(timeout) returning with run still going
wait_timeout(s) == TRUE

\* self.wait() returns once run has returned (at once for a thread that was
\* never started)
wait(s) == wpc[s] \in {"unstarted", "finished"}

\* a direct call of <side>_thread.stop() from the foreground context
stop_call(s) ==
  /\ fg = "idle"
  /\ running' = stop_set(s)
  /\ fg' = "wait"
  /\ waitFor' = s
  /\ ctx' = "api"
  /\ UNCHANGED <<cfgVars, wpc, cap, instRaw, nread, published, ret, stopped, capVars,
                 fsVars, clock, presses, wall, supply>>

stop_return ==
  /\ fg = "wait"
  /\ ctx = "api"
  /\ wait(waitFor)
  /\ stopped' = [stopped EXCEPT ![waitFor] = TRUE]
  /\ fg' = "idle"
  /\ waitFor' = "none"
  /\ ctx' = "none"
  /\ UNCHANGED <<cfgVars, workerVars, capVars, fsVars, clock, presses, wall, supply>>

(* ------------------------ CameraApp.closeEvent ------------------------ *)

\* the window is asked to close: self.left_thread.stop() begins
closeEvent_left ==
  /\ fg = "idle"
  /\ running' = stop_set("left")
  /\ fg' = "wait"
  /\ waitFor' = "left"
  /\ ctx' = "close"
  /\ UNCHANGED <<cfgVars, wpc, cap, instRaw, nread, published, ret, stopped, capVars,
                 fsVars, clock, presses, wall, supply>>

\* left_thread.stop() returns and self.right_thread.stop() begins
closeEvent_right ==
  /\ fg = "wait"
  /\ ctx = "close"
  /\ waitFor = "left"
  /\ wait("left")
  /\ stopped' = [stopped EXCEPT !["left"] = TRUE]
  /\ running' = stop_set("right")
  /\ waitFor' = "right"
  /\ UNCHANGED <<cfgVars, wpc, cap, instRaw, nread, published, ret, ctx, fg, capVars,
                 fsVars, clock, presses, wall, supply>>

\* right_thread.stop() returns and event.accept() closes the window
closeEvent_accept ==
  /\ fg = "wait"
  /\ ctx = "close"
  /\ waitFor = "right"
  /\ wait("right")
  /\ stopped' = [stopped EXCEPT !["right"] = TRUE]
  /\ fg' = "closed"
  /\ waitFor' = "none"
  /\ ctx' = "none"
  /\ UNCHANGED <<cfgVars, workerVars, capVars, fsVars, clock, presses, wall, supply>>

(* ---------------------- CameraApp.capture_images ---------------------- *)

\* datetime.now(): the local time of the wall clock; a reading may be less
\* than the one before it (the clock is set back, summer time ends)
Now == wall

\* strftime("%Y%m%d_%H%M%S"): the date and the time of day, to the second
strftime_timestamp(c) == <<c \div SecondsPerDay, c % SecondsPerDay>>

\* strftime("%d_%m_%Y"): the date alone
strftime_folder(c) == <<c \div SecondsPerDay>>

\* a file name without the timestamp: f"results/{folder_name}/{material}_{side}.png"
Path_nostamp(fn, mat, side, ts) ==
  [folder |-> fn, material |-> mat, side |-> side, timestamp |-> NoStamp]

\* f"results/{folder_name}/{material}_{side}_{timestamp}.png"
Path(fn, mat, side, ts) == [folder |-> fn, material |-> mat, side |-> side, timestamp |-> ts]

\* the calendar day of a clock value
Day(c) == c \div SecondsPerDay

\* cv2.imwrite(path, img): the file at path now holds img, replacing what it
\* held. Kept with it, for the record: the capture action that wrote it (by),
\* the timestamp and the material that action read (at, mat), the day on
\* which it read the clock for its timestamp (stamped) and the day on which it
\* read the clock for its folder (day).
imwrite(path, img) ==
  (path :> [img |-> img, by |-> ncap, at |-> timestamp, mat |-> material,
            stamped |-> Day(clock[1]), day |-> Day(clock[2])]) @@ fs

\* the side handled after s, and the report after the last
NextStep(s) == IF s = "left" THEN "check_right" ELSE "report"

\* timestamp = datetime.now().strftime("%Y%m%d_%H%M%S")
capture_images_timestamp ==
  /\ fg = "idle"
  /\ presses > 0
  /\ presses' = presses - 1
  /\ ncap' = ncap + 1
  /\ \E now \in Now :
       /\ clock' = <<now>>
       /\ timestamp' = strftime_timestamp(now)
  /\ fg' = "folder"
  /\ UNCHANGED <<cfgVars, workerVars, stopVars, fsVars, wall, supply,
                 folder_name, material, saved_files, held, dialog, dialog_text>>

\* folder_name, material, os.makedirs(..., exist_ok=True), saved_files = []
capture_images_folder ==
  /\ fg = "folder"
  /\ \E now \in Now :
       /\ clock' = Append(clock, now)
       /\ folder_name' = strftime_folder(now)
       /\ dirs' = dirs \cup {strftime_folder(now)}
  /\ \E text \in currentText(material_types) : material' = text
  /\ saved_files' = <<>>
  /\ fg' = "check_left"
  /\ UNCHANGED <<cfgVars, workerVars, stopVars, fs,
                 timestamp, held, dialog, dialog_text, ncap, presses, wall, supply>>

\* the test of the left worker copied to the right side unchanged
is_not_None_left(s) == raw_frame("left") # None

\* self.<side>_thread.raw_frame is not None
is_not_None(s) == raw_frame(s) # None

\* if self.<side>_thread.raw_frame is not None:
capture_images_check(s) ==
  /\ fg = "check_" \o s
  /\ held' = [held EXCEPT ![s] = raw_frame(s) # None]
  /\ fg' = IF is_not_None(s) THEN "write_" \o s ELSE NextStep(s)
  /\ UNCHANGED <<cfgVars, workerVars, stopVars, fsVars, clock,
                 timestamp, folder_name, material, saved_files, dialog, dialog_text, ncap,
                 presses, wall, supply>>

\* cv2.imwrite(<side>_path, self.<side>_thread.raw_frame);
\* saved_files.append(<side>_path)
capture_images_write(s) ==
  /\ fg = "write_" \o s
  /\ LET path == Path(folder_name, material, s, timestamp)
     IN /\ fs' = imwrite(path, raw_frame(s))
        /\ saved_files' = Append(saved_files, path)
  /\ fg' = NextStep(s)
  /\ UNCHANGED <<cfgVars, workerVars, stopVars, dirs, clock,
                 timestamp, folder_name, material, held, dialog, dialog_text, ncap,
                 presses, wall, supply>>

\* success only when both sides were saved
DialogFor_both(saved) == IF Len(saved) = Cardinality(SideSet) THEN "success" ELSE "warning"

\* if saved_files: the success dialog, else: the warning dialog
DialogFor(saved) == IF saved # <<>> THEN "success" ELSE "warning"

\* msg.setText(... "\n".join(saved_files)); msg.exec()
capture_images_report ==
  /\ fg = "report"
  /\ dialog' = DialogFor(saved_files)
  /\ dialog_text' = IF DialogFor(saved_files) = "success" THEN saved_files ELSE NoFiles
  /\ fg' = "dialog"
  /\ UNCHANGED <<cfgVars, workerVars, stopVars, fsVars, clock,
                 timestamp, folder_name, material, saved_files, held, ncap, presses, wall, supply>>

\* the user dismisses the dialog; msg.exec() and capture_images return
capture_images_return ==
  /\ fg = "dialog"
  /\ dialog' = "none"
  /\ dialog_text' = NoFiles
  /\ timestamp' = NoStamp
  /\ folder_name' = NoStamp
  /\ material' = ""
  /\ saved_files' = NoFiles
  /\ held' = [s \in SideSet |-> FALSE]
  /\ clock' = <<>>
  /\ fg' = "idle"
  /\ UNCHANGED <<cfgVars, workerVars, stopVars, fsVars, ncap, presses, wall, supply>>

(* --------------------------- specifications --------------------------- *)

\* the program: construction, the two workers, capture, window close
Program ==
  \/ CameraApp_init
  \/ CameraApp_init_right
  \/ \E s \in SideSet : Worker(s)
  \/ closeEvent_left
  \/ closeEvent_right
  \/ closeEvent_accept
  \/ capture_images_timestamp
  \/ capture_images_folder
  \/ \E s \in SideSet : capture_images_check(s)
  \/ \E s \in SideSet : capture_images_write(s)
  \/ capture_images_report
  \/ capture_images_return

\* the program, and VideoThread.stop called on either worker directly
Next ==
  \/ Program
  \/ \E s \in SideSet : stop_call(s)
  \/ stop_return

Spec == Init /\ [][Next]_vars

\* repeated captures: construction, the two workers and the capture button,
\* the window left open
Repeat ==
  \/ CameraApp_init
  \/ CameraApp_init_right
  \/ \E s \in SideSet : Worker(s)
  \/ capture_images_timestamp
  \/ capture_images_folder
  \/ \E s \in SideSet : capture_images_check(s)
  \/ \E s \in SideSet : capture_images_write(s)
  \/ capture_images_report
  \/ capture_images_return

SpecRepeat == InitRepeat /\ [][Repeat]_vars

\* the life of the two workers: construction, the acquisition loops, stop and
\* window close, with every thread scheduled again and again and wait()
\* returning once the thread it waits for has finished
Life ==
  \/ CameraApp_init
  \/ CameraApp_init_right
  \/ \E s \in SideSet : Worker(s)
  \/ \E s \in SideSet : stop_call(s)
  \/ stop_return
  \/ closeEvent_left
  \/ closeEvent_right
  \/ closeEvent_accept

FairLife ==
  /\ Init
  /\ [][Life]_vars
  /\ \A s \in SideSet : WF_vars(Worker(s))
  /\ WF_vars(stop_return)
  /\ WF_vars(closeEvent_right)
  /\ WF_vars(closeEvent_accept)

\* the loaders and the constructor alone, over every configuration file
Construct ==
  \/ CameraApp_init
  \/ CameraApp_init_right

SpecConfig == InitConfig /\ [][Construct]_vars

(* ------------------------------ claims -------------------------------- *)

\* the files the capture action number k wrote (and that are still its own)
Written(k) == {p \in DOMAIN fs : fs[p].by = k}

\* the path the running capture action uses for side s
PathOf(s) == Path(folder_name, material, s, timestamp)

\* the paths a dialog lists
Listed == {dialog_text[i] : i \in 1..Len(dialog_text)}

\* the capture action has made both tests and both writes
ActionDone == fg \in {"report", "dialog"}

\* C1: a capture action writes the file of side s if and only if the worker of
\* side s held a raw frame when the action tested it; so it writes as many
\* files as there were sides holding a frame: 2, 1 or 0.
C1_FileIffHeld ==
  ActionDone =>
    /\ \A s \in SideSet : (PathOf(s) \in Written(ncap)) <=> held[s]
    /\ Cardinality(Written(ncap)) = Cardinality({s \in SideSet : held[s]})

C1_Witness ==
  /\ fg = "dialog"
  /\ held["left"] /\ ~held["right"]
  /\ Written(ncap) = {PathOf("left")}

\* C2: a capture action ends with one dialog: the success dialog, listing
\* exactly the paths the action wrote, when it wrote at least one file; the
\* warning dialog exactly when neither worker held a frame and nothing was
\* written.
C2_OneDialog ==
  /\ fg # "dialog" => dialog = "none"
  /\ fg = "dialog" =>
       /\ dialog \in {"success", "warning"}
       /\ dialog = "success" <=> Written(ncap) # {}
       /\ dialog = "success" =>
            /\ Listed = Written(ncap)
            /\ Len(dialog_text) = Cardinality(Written(ncap))
       /\ dialog = "warning" <=>
            /\ \A s \in SideSet : ~held[s]
            /\ Written(ncap) = {}

C2_Witness ==
  /\ fg = "dialog"
  /\ dialog = "success"
  /\ ~held["left"] /\ held["right"]
  /\ dialog_text = <<PathOf("right")>>

\* C7: an iteration whose read fails publishes nothing, leaves the raw frame,
\* the device handle and the program alone and goes back to the loop test;
\* and a worker at the loop test whose flag is still set goes on to read.
C7_FailedReadSkips ==
  [][\A s \in SideSet :
       /\ (wpc[s] = "read" /\ wpc'[s] # "read" /\ nread'[s] = nread[s]) =>
            /\ ~ret'[s]
            /\ instRaw'[s] = instRaw[s]
            /\ published'[s] = published[s]
            /\ cap'[s] = cap[s]
            /\ running'[s] = running[s]
            /\ wpc'[s] = "test"
            /\ fg' # "crashed"
       /\ (wpc[s] = "test" /\ running[s] /\ wpc'[s] # "test") => wpc'[s] = "read"]_vars

\* a running worker about to read again after a failed read, the frame it
\* read before still held
C7_Witness ==
  \E s \in SideSet :
    /\ wpc[s] = "read"
    /\ running[s]
    /\ ~ret[s]
    /\ nread[s] > 0
    /\ raw_frame(s) = Frame(s, nread[s])

\* the frames the worker of side s has stored in its slot: every frame it has
\* read, but the last while it is between cap.read() and the assignment
nstored(s) == IF wpc[s] = "store" THEN nread[s] - 1 ELSE nread[s]

\* a slot is written by its own worker alone, and by no step of the foreground
SlotsOwned ==
  /\ [](\A s \in SideSet : raw_frame(s) # None => raw_frame(s).src = s)
  /\ [][(fg' # fg \/ fs' # fs) => (fg = "boot" \/ instRaw' = instRaw)]_vars

\* C8, as claimed: the image a capture action writes for a side is the most
\* recent frame that side's worker has read at the moment of the write; a slot
\* holds frames of its own source only and the capture action leaves it alone.
C8_LatestReadFrame ==
  /\ SlotsOwned
  /\ [][\A p \in DOMAIN fs' :
          (p \notin DOMAIN fs \/ fs'[p] # fs[p]) =>
            /\ nread[p.side] > 0
            /\ fs'[p].img = Frame(p.side, nread[p.side])]_vars

\* C8, amended: the image a capture action writes for a side is the most
\* recent frame that side's worker has stored in its slot at the moment of the
\* write, which is the latest frame it has read, or the one before while the
\* worker is between the read and the assignment; each slot holds the latest
\* frame its own worker stored, and the capture action leaves it alone.
C8_LatestOwnFrame ==
  /\ SlotsOwned
  /\ [](\A s \in SideSet :
          raw_frame(s) = IF nstored(s) = 0 THEN None ELSE Frame(s, nstored(s)))
  /\ [][\A p \in DOMAIN fs' :
          (p \notin DOMAIN fs \/ fs'[p] # fs[p]) =>
            /\ nstored(p.side) > 0
            /\ fs'[p].img = Frame(p.side, nstored(p.side))]_vars

\* a capture action has just written the first frame of a side whose worker
\* has read the second and not yet stored it
C8_Witness ==
  \E s \in SideSet :
    /\ fg = NextStep(s)
    /\ PathOf(s) \in Written(ncap)
    /\ fs[PathOf(s)].img = Frame(s, 1)
    /\ nread[s] = 2
    /\ wpc[s] = "store"

\* C9: the running flag only ever goes from true to false; a worker is started
\* once, from construction, and a finished worker stays finished; and once a
\* stop of a worker has returned, that worker reads, stores and publishes no
\* frame.
C9_SingleShot ==
  /\ [](\A s \in SideSet : stopped[s] => ~running[s] /\ wpc[s] = "finished")
  /\ [][\A s \in SideSet :
          /\ fg # "boot" => (running'[s] => running[s])
          /\ (wpc'[s] = "open" /\ wpc[s] # "open") =>
               (wpc[s] = "unstarted" /\ fg \in {"boot", "starting"})
          /\ wpc[s] # "unstarted" => wpc'[s] # "unstarted"
          /\ wpc[s] = "finished" => wpc'[s] = "finished"
          /\ stopped[s] =>
               /\ nread'[s] = nread[s]
               /\ instRaw'[s] = instRaw[s]
               /\ published'[s] = published[s]]_vars

C9_Witness ==
  /\ fg = "idle"
  /\ \E s \in SideSet : stopped[s] /\ nread[s] > 0
  /\ \E s \in SideSet : ~stopped[s]

\* C10: a raw frame is empty until the first successful read and never empty
\* again after it; so a capture action on a side whose worker was stopped after
\* reading a frame still writes that side's last frame and reports success.
C10_RawMonotone ==
  /\ [](\A s \in SideSet : nread[s] = 0 => raw_frame(s) = None)
  /\ [][\A s \in SideSet : instRaw[s] # None => instRaw'[s] # None]_vars
  /\ [](fg = "dialog" =>
          \A s \in SideSet :
            (stopped[s] /\ nread[s] > 0) =>
              /\ PathOf(s) \in Written(ncap)
              /\ fs[PathOf(s)].img = Frame(s, nread[s])
              /\ dialog = "success")

C10_Witness ==
  /\ fg = "dialog"
  /\ dialog = "success"
  /\ \E s \in SideSet : stopped[s] /\ held[s] /\ PathOf(s) \in Written(ncap)

\* C3: once a stop of a worker has returned, the worker has reached the end of
\* run and released its device; a further stop of it changes nothing of the
\* worker; and every stop that has begun returns.
C3_StopTerminates ==
  /\ [](\A s \in SideSet : stopped[s] => wpc[s] = "finished" /\ cap[s] = "released")
  /\ [][\A s \in SideSet :
          stopped[s] =>
            /\ wpc'[s] = wpc[s]
            /\ cap'[s] = cap[s]
            /\ running'[s] = running[s]
            /\ instRaw'[s] = instRaw[s]
            /\ stopped'[s]
            /\ fg' # "crashed"]_vars
  /\ \A s \in SideSet : (fg = "wait" /\ waitFor = s) ~> stopped[s]

\* a second stop of a worker that was stopped while it held its device
C3_Witness ==
  \E s \in SideSet :
    /\ stopped[s]
    /\ VideoCapture(url[s]) = "opened"
    /\ fg = "wait" /\ ctx = "api" /\ waitFor = s

\* C4: the window is closed only when both workers have left their loop and
\* released their device, the right worker is stopped only after the left
\* one has, and a close that has begun is always accepted in the end.
C4_CloseAfterRelease ==
  /\ [](fg = "closed" =>
          \A s \in SideSet : wpc[s] = "finished" /\ cap[s] = "released")
  /\ []((ctx = "close" /\ waitFor = "right") =>
          (wpc["left"] = "finished" /\ cap["left"] = "released"))
  /\ (ctx = "close") ~> (fg = "closed")

\* the window closed on two workers that were both delivering frames
C4_Witness ==
  /\ fg = "closed"
  /\ \A s \in SideSet : nread[s] > 0

\* the lines a loader printed
Count(msg) == Cardinality({i \in 1..Len(printed) : printed[i] = msg})

\* a materials file that is missing, is not JSON, is not an object, or holds
\* something else than a list under "materials" (an object without the key
\* is the documented silent case and is left out)
MalformedMaterials == files.materials \in {"missing", "garbage", "null", "array", "obj_num"}

\* a cameras file that is not an object
MalformedCameras == files.cameras \in {"missing", "garbage", "null", "array"}

\* C5: for every malformed or missing configuration file the loader returns
\* its default (["unknown"], an empty mapping), nothing is raised to the
\* caller, and exactly one diagnostic line is printed.
C5_LoaderDefaults ==
  fg \notin {"boot", "starting"} =>
    /\ MalformedMaterials =>
         /\ material_types = JArr(<<"unknown">>)
         /\ Count("Error loading material types") = 1
    /\ MalformedCameras =>
         /\ cameras_config = EmptyDict
         /\ Count("Error loading camera config") = 1
    /\ (MalformedMaterials \/ MalformedCameras) => fg # "crashed"

\* capture actions that began on the same day, the day of the timestamp in
\* their file names, write into the same date folder
SameDaySameFolder ==
  \A p, q \in DOMAIN fs : fs[p].stamped = fs[q].stamped => p.folder = q.folder

\* capture actions that read the clock for their folder on the same day write
\* into the same date folder
SameFolderDaySameFolder ==
  \A p, q \in DOMAIN fs : fs[p].day = fs[q].day => p.folder = q.folder

\* C6, as claimed: captures of the same day share the date folder, and no
\* capture action overwrites a file an earlier capture action wrote.
C6_NeverOverwrites ==
  /\ []SameDaySameFolder
  /\ [][\A p \in DOMAIN fs : p \in DOMAIN fs' /\ fs'[p].by = fs[p].by]_vars

\* C6, amended: captures whose folder reading (the second reading of the
\* clock) falls on the same day share the date folder; no file is removed; a
\* capture action overwrites a file of an earlier one only when both read the
\* same timestamp, to the second, the same material and their folder on the
\* same day; and when it writes a side for which an earlier action with the
\* same three readings left a file, that file is replaced by its own.
C6_OverwritesExactlySameName ==
  /\ []SameFolderDaySameFolder
  /\ [][\A p \in DOMAIN fs :
          /\ p \in DOMAIN fs'
          /\ fs'[p].by # fs[p].by =>
               /\ fs'[p].at = fs[p].at
               /\ fs'[p].mat = fs[p].mat
               /\ fs'[p].day = fs[p].day]_vars
  /\ [][\A s \in SideSet : \A p \in DOMAIN fs :
          (/\ fg = "write_" \o s
           /\ fg' # fg
           /\ p.side = s
           /\ fs[p].at = timestamp
           /\ fs[p].mat = material
           /\ fs[p].day = Day(clock[2])) =>
            (p \in DOMAIN fs' /\ fs'[p].by = ncap)]_vars

\* two capture actions with their files in one date folder, read a second
\* apart, one of them stamped the day before the day of that folder
C6_Witness ==
  \E p, q \in DOMAIN fs :
    /\ fs[p].by # fs[q].by
    /\ p.folder = q.folder
    /\ p.material = q.material
    /\ fs[p].at # fs[q].at
    /\ fs[p].stamped # fs[p].day

====
